---- MODULE Spec2Model ----
(***************************************************************************)
(* tracker-rofi (src/main.rs): a rofi script-mode helper that queries the  *)
(* Tracker3 endpoint over D-Bus, decodes the cursor stream delivered on a  *)
(* pipe, and prints rofi option lines; with ROFI_INFO set it resolves a    *)
(* UUID to a URL and opens it.                                             *)
(*                                                                         *)
(* Text and buffers are sequences of bytes (0..255).  A Rust String/&str   *)
(* is modelled by its UTF-8 bytes.                                         *)
(***************************************************************************)
EXTENDS Integers, Sequences, FiniteSets, TLC

(***************************************************************************)
(* Bytes the program names.                                                *)
(***************************************************************************)
NUL == 0
LF == 10
US == 31

(***************************************************************************)
(* Slices.                                                                 *)
(***************************************************************************)
TakeBytes(b, n) == SubSeq(b, 1, n)

DropBytes(b, n) == SubSeq(b, n + 1, Len(b))

HasPrefix(b, p) == Len(b) >= Len(p) /\ SubSeq(b, 1, Len(p)) = p

RECURSIVE Concat(_)
Concat(ss) == IF ss = <<>> THEN <<>> ELSE Head(ss) \o Concat(Tail(ss))

RECURSIVE Join(_, _)
Join(ss, sep) ==
    IF ss = <<>> THEN <<>>
    ELSE IF Len(ss) = 1 THEN ss[1]
    ELSE ss[1] \o sep \o Join(Tail(ss), sep)

RECURSIVE SeqsUpTo(_, _)
SeqsUpTo(S, n) ==
    IF n = 0 THEN {<<>>}
    ELSE LET shorter == SeqsUpTo(S, n - 1)
         IN  shorter \cup {Append(s, x) : s \in {t \in shorter : Len(t) = n - 1}, x \in S}

(***************************************************************************)
(* nom::number::complete::u32(Endianness::Native) on a little-endian host, *)
(* and the writer's side of the same word.  A u32 w is kept as its 32-bit  *)
(* pattern read as two's complement: w itself below 2^31, w - 2^32 from    *)
(* 2^31 on, so that wrapping subtraction is plain subtraction.             *)
(***************************************************************************)
ReadU32(b) ==
    b[1] + 256 * b[2] + 65536 * b[3]
    + 16777216 * (IF b[4] >= 128 THEN b[4] - 256 ELSE b[4])

U32Bytes(n) ==
    << n % 256, (n \div 256) % 256, (n \div 65536) % 256, (n \div 16777216) % 256 >>

\* a < b as unsigned 32-bit words
ULess(a, b) == IF (a < 0) = (b < 0) THEN a < b ELSE b < 0

\* std::str::from_utf8: over the input alphabets (no lead bytes 0xC2..0xF4
\* occur) a buffer is valid UTF-8 exactly when every byte is ASCII.
Utf8Valid(b) == \A i \in 1..Len(b) : b[i] < 128

(***************************************************************************)
(* url::Url::parse, for the part of the URL grammar the inputs exercise:   *)
(*   scheme ":" [ "//" host ] path        (non-special scheme)             *)
(* Leading and trailing C0-control-or-space bytes are trimmed, TAB/LF/CR   *)
(* are removed everywhere, a text without a valid scheme fails (there is   *)
(* no base URL), path bytes are percent-encoded with the path set, and a   *)
(* remainder that does not start with "/" is an opaque path (the URL       *)
(* cannot be a base).  Not covered, and absent from the inputs: "?", "#",  *)
(* "." and ".." segments, userinfo, ports, special schemes, hosts other    *)
(* than lower-case letters.                                                *)
(***************************************************************************)
IsAlpha(c) == (c >= 65 /\ c <= 90) \/ (c >= 97 /\ c <= 122)

IsDigit(c) == c >= 48 /\ c <= 57

IsSchemeChar(c) == IsAlpha(c) \/ IsDigit(c) \/ c \in {43, 45, 46}

ToLower(c) == IF c >= 65 /\ c <= 90 THEN c + 32 ELSE c

HexDigit(n) == IF n < 10 THEN 48 + n ELSE 55 + n

PercentEncodeByte(c) == << 37, HexDigit(c \div 16), HexDigit(c % 16) >>

\* percent_encoding: CONTROLS plus space " # < > ? ` { }
InPathSet(c) == c <= 32 \/ c >= 127 \/ c \in {34, 35, 60, 62, 63, 96, 123, 125}

InControlSet(c) == c < 32 \/ c >= 127

RECURSIVE TrimStart(_)
TrimStart(s) == IF s # <<>> /\ s[1] <= 32 THEN TrimStart(Tail(s)) ELSE s

RECURSIVE TrimEnd(_)
TrimEnd(s) ==
    IF s # <<>> /\ s[Len(s)] <= 32 THEN TrimEnd(SubSeq(s, 1, Len(s) - 1)) ELSE s

IsTabOrNewline(c) == c \in {9, 10, 13}

UrlInput(text) == SelectSeq(TrimEnd(TrimStart(text)), LAMBDA c : ~IsTabOrNewline(c))

\* index of the first byte equal to c, or 0
RECURSIVE IndexFrom(_, _, _)
IndexFrom(s, c, i) ==
    IF i > Len(s) THEN 0 ELSE IF s[i] = c THEN i ELSE IndexFrom(s, c, i + 1)

IndexOf(s, c) == IndexFrom(s, c, 1)

RECURSIVE EncodeWith(_, _)
EncodeWith(s, inPath) ==
    IF s = <<>> THEN <<>>
    ELSE LET c == Head(s)
             enc == IF inPath THEN InPathSet(c) ELSE InControlSet(c)
         IN  (IF enc THEN PercentEncodeByte(c) ELSE <<c>>) \o EncodeWith(Tail(s), inPath)

NoUrl == [ok |-> FALSE, scheme |-> <<>>, path |-> <<>>]

UrlParse(text) ==
    LET inp == UrlInput(text)
        colon == IndexOf(inp, 58)
    IN  IF inp = <<>> \/ ~IsAlpha(inp[1]) \/ colon = 0
           \/ \E i \in 1..(colon - 1) : ~IsSchemeChar(inp[i])
        THEN NoUrl
        ELSE LET scheme == [i \in 1..(colon - 1) |-> ToLower(inp[i])]
                 rest == DropBytes(inp, colon)
                 afterHost ==
                     IF HasPrefix(rest, <<47, 47>>)
                     THEN LET r2 == DropBytes(rest, 2)
                              slash == IndexOf(r2, 47)
                          IN  IF slash = 0 THEN <<>> ELSE DropBytes(r2, slash - 1)
                     ELSE rest
                 opaque == ~HasPrefix(rest, <<47>>)
             IN  [ok |-> TRUE, scheme |-> scheme,
                  path |-> EncodeWith(afterHost, ~opaque)]

(***************************************************************************)
(* Url::path_segments: None unless the path starts with "/", else the rest *)
(* of the path split at "/".                                               *)
(***************************************************************************)
RECURSIVE Split(_, _)
Split(s, c) ==
    LET i == IndexOf(s, c)
    IN  IF i = 0 THEN <<s>> ELSE <<TakeBytes(s, i - 1)>> \o Split(DropBytes(s, i), c)

PathSegments(url) ==
    IF HasPrefix(url.path, <<47>>)
    THEN [some |-> TRUE, segs |-> Split(DropBytes(url.path, 1), 47)]
    ELSE [some |-> FALSE, segs |-> <<>>]

(***************************************************************************)
(* percent_decode_str(s).decode_utf8_lossy()                               *)
(***************************************************************************)
IsHex(c) == IsDigit(c) \/ (c >= 65 /\ c <= 70) \/ (c >= 97 /\ c <= 102)

HexVal(c) == IF IsDigit(c) THEN c - 48 ELSE IF c >= 97 THEN c - 87 ELSE c - 55

RECURSIVE PercentDecode(_)
PercentDecode(s) ==
    IF s = <<>> THEN <<>>
    ELSE IF s[1] = 37 /\ Len(s) >= 3 /\ IsHex(s[2]) /\ IsHex(s[3])
         THEN <<16 * HexVal(s[2]) + HexVal(s[3])>> \o PercentDecode(DropBytes(s, 3))
         ELSE <<s[1]>> \o PercentDecode(Tail(s))

\* String::from_utf8_lossy: over the inputs every byte >= 0x80 is a lone
\* continuation byte, replaced by U+FFFD (EF BF BD).
RECURSIVE Utf8Lossy(_)
Utf8Lossy(s) ==
    IF s = <<>> THEN <<>>
    ELSE (IF s[1] < 128 THEN <<s[1]>> ELSE <<239, 191, 189>>) \o Utf8Lossy(Tail(s))

decode(s) == Utf8Lossy(PercentDecode(s))

(***************************************************************************)
(* QueryResult                                                             *)
(***************************************************************************)
NoResult == [some |-> FALSE, uuid |-> <<>>, uri |-> NoUrl, title |-> <<>>, snippet |-> <<>>]

\* QueryResult::new: None when the locator does not parse
QueryResultNew(uuid, uristr, title, snippet) ==
    LET u == UrlParse(uristr)
    IN  IF ~u.ok THEN NoResult
        ELSE [some |-> TRUE, uuid |-> uuid, uri |-> u, title |-> title, snippet |-> snippet]

\* the (fname, pname) pair of description(): each an Option
FileAndParent(r) ==
    LET ps == PathSegments(r.uri)
    IN  IF ps.some
        THEN LET n == Len(ps.segs)
             IN  [fsome |-> TRUE, fname |-> decode(ps.segs[n]),
                  psome |-> TRUE,
                  pname |-> Join([i \in 1..(n - 1) |-> decode(ps.segs[i])], <<47>>)]
        ELSE [fsome |-> FALSE, fname |-> <<>>, psome |-> FALSE, pname |-> <<>>]

description(r) ==
    LET fp == FileAndParent(r)
    IN  (IF fp.fsome THEN fp.fname \o <<58, 32>> ELSE <<>>)
        \o (IF Len(r.title) > 0 THEN r.title ELSE <<>>)
        \o (IF fp.psome THEN <<32, 91>> \o fp.pname \o <<93>> ELSE <<>>)

(***************************************************************************)
(* The rofi line encoder.                                                  *)
(***************************************************************************)
\* one metadata block: name 0x1f value
MetaBlock(m) == m[1] \o <<US>> \o m[2]

\* val is an Option: [some, str]; meta a sequence of <<name, value>> pairs
format_rofi_option(val, meta) ==
    (IF val.some THEN val.str ELSE <<>>)
    \o <<NUL>>
    \o Join([i \in 1..Len(meta) |-> MetaBlock(meta[i])], <<US>>)
    \o <<LF>>

RECURSIVE ReplaceByte(_, _, _)
ReplaceByte(s, c, with) ==
    IF s = <<>> THEN <<>>
    ELSE (IF s[1] = c THEN with ELSE <<s[1]>>) \o ReplaceByte(Tail(s), c, with)

\* an escape that forgets the NUL
escape_newlines_only(r) == ReplaceByte(r, LF, <<32>>)

escape_result(r) == ReplaceByte(ReplaceByte(r, LF, <<32>>), NUL, <<>>)

\* "info"
InfoName == <<105, 110, 102, 111>>

format_result(r) ==
    format_rofi_option([some |-> TRUE, str |-> escape_result(description(r))],
                       << <<InfoName, r.uuid>> >>)

(***************************************************************************)
(* parse_one: one row frame of the cursor stream.                          *)
(* A parser result is [kind, rest, row, res]: kind "ok" (Ok((rest, row))), *)
(* "error" (nom::Err::Error) or "panic" (an unwrap or an arithmetic        *)
(* overflow check aborted the process); res are the four field slices.     *)
(***************************************************************************)
ParseError == [kind |-> "error", rest |-> <<>>, row |-> NoResult, res |-> <<>>]

ParsePanic == [kind |-> "panic", rest |-> <<>>, row |-> NoResult, res |-> <<>>]

\* tag([4u8, 0, 0, 0])
RowTag == <<4, 0, 0, 0>>

\* count(p, 4): n native words, or Error on a short buffer
CountU32(b, n) ==
    IF Len(b) < 4 * n THEN [ok |-> FALSE, rest |-> <<>>, words |-> <<>>]
    ELSE [ok |-> TRUE, rest |-> DropBytes(b, 4 * n),
          words |-> [i \in 1..n |-> ReadU32(SubSeq(b, 4 * i - 3, 4 * i))]]

\* let len = l - offset: u32 subtraction; with overflow checks (debug
\* build) an underflow panics, without them (release build) it wraps
FieldLen(l, offset, checked) ==
    IF ~ULess(l, offset) THEN [panic |-> FALSE, len |-> l - offset]
    ELSE IF checked THEN [panic |-> TRUE, len |-> 0]
    ELSE [panic |-> FALSE, len |-> l - offset]

\* take(len) fails on a buffer shorter than len; a len of 2^31 or more
\* (negative as a pattern) is longer than any buffer
TooShort(b, len) == len < 0 \/ Len(b) < len

\* a decoder that takes the markers for sums of field lengths
NextOffsetWithoutTerminator(offset, len) == offset + len

\* offset += len + 1; it cannot overflow: take(len) has just succeeded, so
\* len is no more than the buffer holds
NextOffset(offset, len) == offset + len + 1

\* tag(&[0u8]) after a field
FieldTerminated(bp) == HasPrefix(bp, <<NUL>>)

\* the body of `for l in lengths`, from field i on
RECURSIVE FieldLoop(_, _, _, _, _, _)
FieldLoop(b, lengths, i, offset, res, checked) ==
    IF i > Len(lengths) THEN [kind |-> "ok", rest |-> b, res |-> res]
    ELSE LET fl == FieldLen(lengths[i], offset, checked)
         IN  IF fl.panic THEN [kind |-> "panic", rest |-> <<>>, res |-> <<>>]
             ELSE IF TooShort(b, fl.len) THEN [kind |-> "error", rest |-> <<>>, res |-> <<>>]
             ELSE LET x == TakeBytes(b, fl.len)
                      bp == DropBytes(b, fl.len)
                  IN  IF ~FieldTerminated(bp)
                      THEN [kind |-> "error", rest |-> <<>>, res |-> <<>>]
                      ELSE IF ~Utf8Valid(x)
                      THEN [kind |-> "panic", rest |-> <<>>, res |-> <<>>]
                      ELSE FieldLoop(DropBytes(bp, 1), lengths, i + 1,
                                     NextOffset(offset, fl.len), Append(res, x), checked)

\* QueryResult::new(res[0], res[1], res[2], res[3]).unwrap()
RowOfFields(rest, res) ==
    LET qr == QueryResultNew(res[1], res[2], res[3], res[4])
    IN  IF ~qr.some THEN ParsePanic
        ELSE [kind |-> "ok", rest |-> rest, row |-> qr, res |-> res]

parse_one(buf, checked) ==
    IF ~HasPrefix(buf, RowTag) THEN ParseError
    ELSE LET types == CountU32(DropBytes(buf, 4), 4)
         IN  IF ~types.ok THEN ParseError
             ELSE LET lengths == CountU32(types.rest, 4)
                  IN  IF ~lengths.ok THEN ParseError
                      ELSE LET f == FieldLoop(lengths.rest, lengths.words, 1, 0, <<>>, checked)
                           IN  IF f.kind = "ok" THEN RowOfFields(f.rest, f.res)
                               ELSE IF f.kind = "panic" THEN ParsePanic
                               ELSE ParseError

(***************************************************************************)
(* The single-column frame of tracker_query_uuid_v3 (lines 181-189):       *)
(* tuple((tag([1,0,0,0]), p, p)), take(len), each unwrapped.               *)
(***************************************************************************)
UuidTag == <<1, 0, 0, 0>>

\* tuple((tag, p, p))(b).unwrap(): the header, or a panic
UuidHeader(b) ==
    IF HasPrefix(b, UuidTag) /\ Len(b) >= 12
    THEN [ok |-> TRUE, len |-> ReadU32(SubSeq(b, 9, 12)), rest |-> DropBytes(b, 12)]
    ELSE [ok |-> FALSE, len |-> 0, rest |-> <<>>]

\* a lookup that wants the NUL the row decoder wants
UuidPayloadTerminated(b, len) ==
    IF TooShort(b, len) \/ ~FieldTerminated(DropBytes(b, len)) THEN [ok |-> FALSE, uri |-> <<>>]
    ELSE IF ~Utf8Valid(TakeBytes(b, len)) THEN [ok |-> FALSE, uri |-> <<>>]
    ELSE [ok |-> TRUE, uri |-> TakeBytes(b, len)]

\* take(len)(b).unwrap(), then from_utf8(x).unwrap()
UuidPayload(b, len) ==
    IF TooShort(b, len) THEN [ok |-> FALSE, uri |-> <<>>]
    ELSE IF ~Utf8Valid(TakeBytes(b, len)) THEN [ok |-> FALSE, uri |-> <<>>]
    ELSE [ok |-> TRUE, uri |-> TakeBytes(b, len)]

\* [kind |-> "ok", uri] or [kind |-> "panic"]
DecodeUuidFrame(b) ==
    LET h == UuidHeader(b)
    IN  IF ~h.ok THEN [kind |-> "panic", uri |-> <<>>]
        ELSE LET x == UuidPayload(h.rest, h.len)
             IN  IF x.ok THEN [kind |-> "ok", uri |-> x.uri]
                 ELSE [kind |-> "panic", uri |-> <<>>]

(***************************************************************************)
(* Bounds of the model.                                                    *)
(***************************************************************************)
\* row frames in one cursor stream
MaxRows == 2
\* bytes in a free-text field of a row (uuid, title, snippet)
MaxFieldLen == 1
\* the length word of a single-column frame
MaxUuidLen == 2
\* path segments of a locator handed to the encoder
MaxSegs == 2
\* bytes of an identifier or title handed to the encoder
MaxTextLen == 1

(***************************************************************************)
(* The service's side: what the Tracker endpoint writes to the pipe.  A    *)
(* row frame is the word 4, four type words, four markers and the four     *)
(* fields, each followed by NUL.  The markers the endpoint writes are the  *)
(* end offsets of the fields in the data (EndOffsets); the other kinds are *)
(* streams the decoder must cope with.                                     *)
(***************************************************************************)
RowData(f) == Concat([i \in 1..Len(f) |-> f[i] \o <<NUL>>])

\* marker i = offset of the NUL that ends field i
RECURSIVE EndOffsets(_)
EndOffsets(f) ==
    IF f = <<>> THEN <<>>
    ELSE LET n == Len(f)
             before == EndOffsets(SubSeq(f, 1, n - 1))
         IN  Append(before, (IF n = 1 THEN 0 ELSE before[n - 1] + 1) + Len(f[n]))

\* marker i = sum of the lengths of fields 0..i
RECURSIVE LengthSums(_)
LengthSums(f) ==
    IF f = <<>> THEN <<>>
    ELSE LET n == Len(f)
             before == LengthSums(SubSeq(f, 1, n - 1))
         IN  Append(before, (IF n = 1 THEN 0 ELSE before[n - 1]) + Len(f[n]))

Words(ws) == Concat([i \in 1..Len(ws) |-> U32Bytes(ws[i])])

Frame(tagv, markers, f) ==
    U32Bytes(tagv) \o Words(<<0, 0, 0, 0>>) \o Words(markers) \o RowData(f)

\* "cut" lacks the last byte of the frame, "short" ends inside the header
FrameKinds == {"row", "sums", "badtag", "cut", "short"}

\* the markers a frame descriptor [fields, kind] carries
MarkersOf(d) == IF d.kind = "sums" THEN LengthSums(d.fields) ELSE EndOffsets(d.fields)

FrameBytes(d) ==
    LET whole == Frame(IF d.kind = "badtag" THEN 1 ELSE 4, MarkersOf(d), d.fields)
    IN  IF d.kind = "cut" THEN TakeBytes(whole, Len(whole) - 1)
        ELSE IF d.kind = "short" THEN TakeBytes(whole, 20)
        ELSE whole

StreamBytes(ds) == Concat([i \in 1..Len(ds) |-> FrameBytes(ds[i])])

\* locator texts: "a" and "/a" have no scheme; the rest parse
FlowLocators == { <<97>>, <<97, 58, 47, 97>> }

RowLocators == { <<47, 97>>, <<97, 58, 47, 97>>, <<97, 58, 47, 97, 47, 97>>, <<97, 58, 97>> }

\* rows of a multi-row stream: two identifiers, locator parseable or not
FlowFrames ==
    [fields : {<<u, l, <<97>>, <<>> >> : u \in {<<97>>, <<98>>}, l \in FlowLocators},
     kind : FrameKinds]

\* rows of a one-row stream: every field varies; 255 is not UTF-8
FieldTexts == SeqsUpTo({97, 0}, MaxFieldLen)

RowFrames ==
    [fields : {<<u, l, t, sn>> : u \in SeqsUpTo({97, 0, 255}, MaxFieldLen),
                                  l \in RowLocators,
                                  t \in FieldTexts, sn \in FieldTexts},
     kind : {"row", "sums"}]

Streams == SeqsUpTo(FlowFrames, MaxRows) \cup {<<d>> : d \in RowFrames}

\* the streams tried with every reply
ShortStreams == SeqsUpTo(FlowFrames, 1)

\* single-column frames: tag, type word, length word, payload bytes
UuidFrame(tagv, len, data) == U32Bytes(tagv) \o U32Bytes(0) \o U32Bytes(len) \o data

UuidFrames ==
    [tagv : {1, 4}, len : 0..MaxUuidLen, data : SeqsUpTo({97, 0, 255}, MaxUuidLen + 1)]

NoFrame == [tagv |-> 0, len |-> 0, data |-> <<>>]

\* the reply to the Query call: an error, or the list of column names
Replies == {[ok |-> FALSE, cols |-> 0]} \cup {[ok |-> TRUE, cols |-> c] : c \in {0, 1, 3, 4, 5}}

(***************************************************************************)
(* State.                                                                  *)
(***************************************************************************)
VARIABLES
    pc,          \* position in main / tracker_search_v3 / tracker_query_uuid_v3
    argc,        \* args.len()
    query,       \* args[1..].join(" ")
    rofiInfo,    \* env::var("ROFI_INFO"): [set, uuid]
    checked,     \* the build checks integer overflow (debug) or not (release)
    reply,       \* the endpoint's reply to Query: [ok, cols]
    sent,        \* the row frames the endpoint wrote to the pipe
    sentUuid,    \* the single-column frame the endpoint wrote, if any
    pipe,        \* the bytes in the pipe
    pipeRead,    \* read_to_end has run
    arityChecks, \* how often the reply's column count was tested
    rest,        \* many0's remaining input
    results,     \* rows decoded so far / the Vec returned
    fields,      \* parse_one's `res` for each row decoded
    uri,         \* tracker_query_uuid_v3's Ok value: [some, str]
    opened,      \* what opener::open was handed: [some, str]
    written,     \* the buffers handed to fd.write_all, in order
    exit,        \* "running", "ok", "err" (main returned Err) or "panic"
    errctx,      \* the context of the error main returned: [msg, arg]
    item,        \* encoder run: the QueryResult being formatted
    desc,        \* encoder run: description()
    label,       \* encoder run: escape_result(description())
    line         \* encoder run: format_result()

vars == << pc, argc, query, rofiInfo, checked, reply, sent, sentUuid, pipe, pipeRead,
           arityChecks, rest, results, fields, uri, opened, written, exit, errctx,
           item, desc, label, line >>

envVars == << argc, query, rofiInfo, checked, reply, sent, sentUuid, pipe >>

encVars == << item, desc, label, line >>

None == [some |-> FALSE, str |-> <<>>]

Some(x) == [some |-> TRUE, str |-> x]

NoCtx == [msg |-> "", arg |-> <<>>]

ProgramStart ==
    /\ pc = "main"
    /\ pipeRead = FALSE
    /\ arityChecks = 0
    /\ rest = <<>>
    /\ results = <<>>
    /\ fields = <<>>
    /\ uri = None
    /\ opened = None
    /\ written = <<>>
    /\ exit = "running"
    /\ errctx = NoCtx

EncoderIdle ==
    /\ item = NoResult
    /\ desc = <<>>
    /\ label = <<>>
    /\ line = <<>>

Queries == { <<97>>, <<97, 32, 98>> }

\* no arguments: rofi's initial run
InitNoArgs ==
    /\ argc = 1 /\ query = <<>>
    /\ rofiInfo \in {None, Some(<<97>>)}
    /\ reply \in Replies
    /\ sent = <<>> /\ sentUuid = NoFrame /\ pipe = <<>>

\* a search: the endpoint answers and writes a cursor stream
InitSearch ==
    /\ argc = 2 /\ query \in Queries
    /\ rofiInfo = None
    /\ \/ reply \in Replies /\ sent \in ShortStreams
       \/ reply = [ok |-> TRUE, cols |-> 4] /\ sent \in Streams
    /\ sentUuid = NoFrame
    /\ pipe = StreamBytes(sent)

\* a lookup: the endpoint answers and writes nothing or one single-column frame
InitLookup ==
    /\ argc = 2 /\ query = <<97>>
    /\ rofiInfo \in {Some(<<97>>), Some(<<98>>)}
    /\ reply \in Replies
    /\ sent = <<>>
    /\ \/ sentUuid = NoFrame /\ pipe = <<>>
       \/ /\ sentUuid \in UuidFrames
          /\ pipe = UuidFrame(sentUuid.tagv, sentUuid.len, sentUuid.data)

Init ==
    /\ checked \in BOOLEAN
    /\ InitNoArgs \/ InitSearch \/ InitLookup
    /\ ProgramStart
    /\ EncoderIdle

Fail(msg, arg) ==
    /\ exit' = "err"
    /\ errctx' = [msg |-> msg, arg |-> arg]
    /\ pc' = "done"

Panic ==
    /\ exit' = "panic"
    /\ errctx' = NoCtx
    /\ pc' = "done"

(***************************************************************************)
(* main                                                                    *)
(***************************************************************************)
\* lines 226-229: no args
MainNoArgs ==
    /\ pc = "main" /\ argc = 1
    /\ pc' = "done" /\ exit' = "ok"
    /\ UNCHANGED << envVars, encVars, pipeRead, arityChecks, rest, results, fields,
                    uri, opened, written, errctx >>

\* lines 231-233: ROFI_INFO is set
MainLookup ==
    /\ pc = "main" /\ argc # 1 /\ rofiInfo.some
    /\ pc' = "uuid_reply"
    /\ UNCHANGED << envVars, encVars, pipeRead, arityChecks, rest, results, fields,
                    uri, opened, written, exit, errctx >>

\* lines 242-248: otherwise search
MainSearch ==
    /\ pc = "main" /\ argc # 1 /\ ~rofiInfo.some
    /\ pc' = "search_reply"
    /\ UNCHANGED << envVars, encVars, pipeRead, arityChecks, rest, results, fields,
                    uri, opened, written, exit, errctx >>

(***************************************************************************)
(* tracker_search_v3                                                       *)
(***************************************************************************)
\* a check that lets wider replies through
SearchArityAtLeast(n) == n >= 4

\* line 140
SearchArityOk(n) == n = 4

\* lines 135-142: the reply; `?` on a failed call, then the column check
SearchReply ==
    /\ pc = "search_reply"
    /\ IF ~reply.ok
       THEN Fail("failed search", query) /\ UNCHANGED arityChecks
       ELSE /\ arityChecks' = arityChecks + 1
            /\ IF SearchArityOk(reply.cols)
               THEN pc' = "search_read" /\ UNCHANGED << exit, errctx >>
               ELSE Fail("failed search", query)
    /\ UNCHANGED << envVars, encVars, pipeRead, rest, results, fields, uri, opened, written >>

\* lines 144-145: read the pipe to its end
SearchRead ==
    /\ pc = "search_read"
    /\ pipeRead' = TRUE
    /\ rest' = pipe
    /\ pc' = "search_parse"
    /\ UNCHANGED << envVars, encVars, arityChecks, results, fields, uri, opened,
                    written, exit, errctx >>

\* line 147: one round of many0(parse_one): a row is appended, an Error
\* ends the loop with Ok(rows so far), a panic aborts
Many0Step ==
    /\ pc = "search_parse"
    /\ LET r == parse_one(rest, checked)
       IN  IF r.kind = "panic" THEN Panic /\ UNCHANGED << rest, results, fields >>
           ELSE IF r.kind = "error"
           THEN /\ pc' = "main_results"
                /\ UNCHANGED << rest, results, fields, exit, errctx >>
           ELSE IF Len(r.rest) = Len(rest)
           THEN Panic /\ UNCHANGED << rest, results, fields >>
           ELSE /\ rest' = r.rest
                /\ results' = Append(results, r.row)
                /\ fields' = Append(fields, r.res)
                /\ UNCHANGED << pc, exit, errctx >>
    /\ UNCHANGED << envVars, encVars, pipeRead, arityChecks, uri, opened, written >>

\* "no results", ("nonselectable", "true")
NoResultsLine ==
    format_rofi_option(Some(<<110, 111, 32, 114, 101, 115, 117, 108, 116, 115>>),
        << << <<110, 111, 110, 115, 101, 108, 101, 99, 116, 97, 98, 108, 101>>,
              <<116, 114, 117, 101>> >> >>)

\* a main that prints nothing for an empty result
OutputResultsOnly(rs) == [i \in 1..Len(rs) |-> format_result(rs[i])]

\* lines 251-262: what main writes for the rows returned
Output(rs) ==
    IF Len(rs) = 0 THEN <<NoResultsLine>>
    ELSE [i \in 1..Len(rs) |-> format_result(rs[i])]

MainWrite ==
    /\ pc = "main_results"
    /\ written' = written \o Output(results)
    /\ pc' = "done" /\ exit' = "ok"
    /\ UNCHANGED << envVars, encVars, pipeRead, arityChecks, rest, results, fields,
                    uri, opened, errctx >>

(***************************************************************************)
(* tracker_query_uuid_v3, and main's use of its value                      *)
(***************************************************************************)
\* line 173
UuidArityOk(n) == n = 1

\* lines 170-175
UuidReply ==
    /\ pc = "uuid_reply"
    /\ IF ~reply.ok
       THEN Fail("can't lookup UUID", rofiInfo.str) /\ UNCHANGED arityChecks
       ELSE /\ arityChecks' = arityChecks + 1
            /\ IF UuidArityOk(reply.cols)
               THEN pc' = "uuid_read" /\ UNCHANGED << exit, errctx >>
               ELSE Fail("can't lookup UUID", rofiInfo.str)
    /\ UNCHANGED << envVars, encVars, pipeRead, rest, results, fields, uri, opened, written >>

\* lines 177-179
UuidRead ==
    /\ pc = "uuid_read"
    /\ pipeRead' = TRUE
    /\ rest' = pipe
    /\ pc' = "uuid_decode"
    /\ UNCHANGED << envVars, encVars, arityChecks, results, fields, uri, opened,
                    written, exit, errctx >>

\* lines 181-189
UuidDecode ==
    /\ pc = "uuid_decode"
    /\ LET r == DecodeUuidFrame(rest)
       IN  IF r.kind = "panic" THEN Panic /\ UNCHANGED uri
           ELSE /\ uri' = Some(r.uri)
                /\ pc' = "daemon"
                /\ UNCHANGED << exit, errctx >>
    /\ UNCHANGED << envVars, encVars, pipeRead, arityChecks, rest, results, fields,
                    opened, written >>

\* lines 235-239: daemon() fails, or the child opens the URL and the
\* parent returns Ok
MainDaemon ==
    /\ pc = "daemon"
    /\ \E forked \in BOOLEAN :
          IF forked
          THEN opened' = uri /\ exit' = "ok" /\ pc' = "done" /\ UNCHANGED errctx
          ELSE Fail("can't fork", <<>>) /\ UNCHANGED opened
    /\ UNCHANGED << envVars, encVars, pipeRead, arityChecks, rest, results, fields,
                    uri, written >>

Next ==
    \/ MainNoArgs
    \/ MainLookup
    \/ MainSearch
    \/ SearchReply
    \/ SearchRead
    \/ Many0Step
    \/ MainWrite
    \/ UuidReply
    \/ UuidRead
    \/ UuidDecode
    \/ MainDaemon

Spec == Init /\ [][Next]_vars

(***************************************************************************)
(* The encoder alone: format_result on one QueryResult.                    *)
(***************************************************************************)
\* identifiers and titles: letters and the three bytes the line format uses
EncTexts == SeqsUpTo({97, NUL, LF, US}, MaxTextLen)

\* path segments: "", "a", "%00", "%0a", "%a0" (not UTF-8 once decoded)
EncSegments == { <<>>, <<97>>, <<37, 48, 48>>, <<37, 48, 97>>, <<37, 97, 48>> }

\* "a:/" seg "/" seg ..., the opaque "a:" and "a:a", and "a://a"
EncLocators ==
    { <<97, 58, 47>> \o Join(segs, <<47>>) :
          segs \in {ss \in SeqsUpTo(EncSegments, MaxSegs) : Len(ss) >= 1} }
    \cup { <<97, 58>>, <<97, 58, 97>> }

EncResults ==
    { QueryResultNew(u, l, t, <<>>) : u \in EncTexts, l \in EncLocators, t \in EncTexts }

InitEncode ==
    /\ pc = "encode"
    /\ argc = 2 /\ query = <<>> /\ rofiInfo = None /\ checked = FALSE
    /\ reply = [ok |-> TRUE, cols |-> 4]
    /\ sent = <<>> /\ sentUuid = NoFrame /\ pipe = <<>>
    /\ pipeRead = FALSE /\ arityChecks = 0 /\ rest = <<>>
    /\ results = <<>> /\ fields = <<>> /\ uri = None /\ opened = None
    /\ written = <<>> /\ exit = "running" /\ errctx = NoCtx
    /\ item \in EncResults
    /\ desc = <<>> /\ label = <<>> /\ line = <<>>

\* lines 218-221, with the values it passes through
FormatResult ==
    /\ pc = "encode"
    /\ desc' = description(item)
    /\ label' = escape_result(description(item))
    /\ line' = format_result(item)
    /\ pc' = "encoded"
    /\ UNCHANGED << envVars, item, pipeRead, arityChecks, rest, results, fields,
                    uri, opened, written, exit, errctx >>

SpecEncode == InitEncode /\ [][FormatResult]_vars

(***************************************************************************)
(* Properties.                                                             *)
(***************************************************************************)
SearchMode == argc # 1 /\ ~rofiInfo.some

LookupMode == argc # 1 /\ rofiInfo.some

CountByte(s, c) == Cardinality({i \in 1..Len(s) : s[i] = c})

\* bytes of the first k frames when frame j takes its header (tag, four
\* type words, four markers), its last marker's worth of data and one more
RECURSIVE FramesSpan(_, _)
FramesSpan(ds, k) ==
    IF k = 0 THEN 0 ELSE FramesSpan(ds, k - 1) + 36 + MarkersOf(ds[k])[4] + 1

RECURSIVE ParseableRows(_)
ParseableRows(ds) ==
    IF ds = <<>> THEN <<>>
    ELSE LET f == Head(ds).fields
             qr == QueryResultNew(f[1], f[2], f[3], f[4])
         IN  (IF qr.some THEN <<qr>> ELSE <<>>) \o ParseableRows(Tail(ds))

WellFormedStream ==
    \A k \in 1..Len(sent) :
        /\ sent[k].kind = "row"
        /\ \A i \in 1..4 : Utf8Valid(sent[k].fields[i])

\* C2 as stated: a search over a stream of well-formed rows ends normally
\* and returns exactly the rows whose locator parses, in stream order; a
\* row with an unparseable locator is left out and aborts nothing.
C2_UnparseableRowsAreOmitted ==
    (SearchMode /\ reply.ok /\ reply.cols = 4 /\ WellFormedStream /\ pc = "done")
        => exit = "ok" /\ results = ParseableRows(sent)

\* C3 as stated: when the decode of a stream succeeds, it has returned one
\* row for every frame of the stream and the stream is used up.
C3_AllOrNothing ==
    (SearchMode /\ pc = "main_results")
        => Len(results) = Len(sent) /\ rest = <<>>

\* C4 as stated: a formatted result line holds exactly one NUL, exactly
\* one 0x1f and exactly one LF, the LF being its last byte.
C4_OneOfEachDelimiter ==
    pc = "encoded"
        => /\ CountByte(line, NUL) = 1
           /\ CountByte(line, US) = 1
           /\ CountByte(line, LF) = 1
           /\ line[Len(line)] = LF

\* newline -> space, NUL deleted, stated byte by byte
Unescaped(d) ==
    SelectSeq([i \in 1..Len(d) |-> IF d[i] = LF THEN 32 ELSE d[i]], LAMBDA c : c # NUL)

\* C5: the label of a formatted result (the bytes of the line before its
\* NUL separator) holds no NUL and no newline: it is the description with
\* each newline replaced by one space and each NUL deleted.
C5_LabelHasNoNulOrNewline ==
    pc = "encoded"
        => /\ \A i \in 1..Len(label) : label[i] # NUL /\ label[i] # LF
           /\ label = Unescaped(desc)
           /\ HasPrefix(line, label \o <<NUL>>)

\* C5 witness: a description holding both a NUL and a newline was encoded.
C5_Witness ==
    /\ pc = "encoded"
    /\ CountByte(desc, NUL) >= 1
    /\ CountByte(desc, LF) >= 1

\* C6: a search that succeeds with no result writes exactly the line
\* "no results" NUL "nonselectable" 0x1f "true" LF, whatever the query; one
\* that succeeds with n > 0 results writes n lines, one per result in
\* order, none of them that line.
C6_NoResultsLine ==
    (SearchMode /\ pc = "done" /\ exit = "ok")
        => IF Len(results) = 0
           THEN written = << <<110, 111, 32, 114, 101, 115, 117, 108, 116, 115, 0,
                               110, 111, 110, 115, 101, 108, 101, 99, 116, 97, 98,
                               108, 101, 31, 116, 114, 117, 101, 10>> >>
           ELSE /\ Len(written) = Len(results)
                /\ \A i \in 1..Len(written) :
                       /\ written[i] = format_result(results[i])
                       /\ ~HasPrefix(written[i],
                                     <<110, 111, 32, 114, 101, 115, 117, 108, 116, 115, 0>>)

\* C6 witness: a search over a non-empty stream ended with no result.
C6_Witness ==
    /\ SearchMode /\ pc = "done" /\ exit = "ok"
    /\ Len(results) = 0
    /\ pipe # <<>>
    /\ query = <<97, 32, 98>>

\* C7: for a single-column frame (tag 1, a type word, a length n and at
\* least n bytes, these n being UTF-8) the lookup returns exactly the n
\* bytes after the header, whether or not any byte, NUL or other, follows.
C7_UuidPayloadIsLengthBytes ==
    /\ (LookupMode /\ sentUuid.tagv = 1 /\ Len(sentUuid.data) >= sentUuid.len
            /\ Utf8Valid(SubSeq(sentUuid.data, 1, sentUuid.len))
            /\ pc \in {"daemon", "done"} /\ pipeRead)
           => exit # "panic" /\ uri = Some(SubSeq(sentUuid.data, 1, sentUuid.len))
    /\ uri.some => uri.str = SubSeq(sentUuid.data, 1, sentUuid.len)

\* C7 witness: a frame whose payload ends the stream (nothing follows it)
\* and one byte shorter than what a NUL-terminated field would need.
C7_Witness ==
    /\ LookupMode /\ pc = "daemon"
    /\ sentUuid.len = 2
    /\ Len(sentUuid.data) = 2
    /\ uri.some

\* C8 as stated: a lookup whose reply names one column and whose stream is
\* empty ends with an error value carrying the identifier, never opens
\* anything and does not panic.
C8_ZeroRowsIsNotFound ==
    (LookupMode /\ reply.ok /\ reply.cols = 1 /\ pipe = <<>> /\ pc = "done")
        => exit = "err" /\ errctx.arg = rofiInfo.str /\ ~opened.some

\* C9 as stated: description() is "<file name>: " (when the locator has
\* path segments), then the title, then " [<parent path>]" only when
\* segments remain before the file name.
C9_DescriptionParts ==
    pc = "encoded"
        => LET ps == PathSegments(item.uri)
               n == Len(ps.segs)
           IN  desc =
                 (IF ps.some THEN decode(ps.segs[n]) \o <<58, 32>> ELSE <<>>)
                 \o item.title
                 \o (IF ps.some /\ n > 1
                     THEN <<32, 91>>
                          \o Join([i \in 1..(n - 1) |-> decode(ps.segs[i])], <<47>>)
                          \o <<93>>
                     ELSE <<>>)

\* C10: in a search the reply's column count is tested once, and before
\* the pipe is read: with a count other than 4 the pipe is never read, no
\* row is decoded, nothing is written and main returns the error.
C10_ArityCheckedBeforeRead ==
    SearchMode
        => /\ arityChecks <= 1
           /\ pipeRead => (arityChecks = 1 /\ reply.ok /\ reply.cols = 4)
           /\ (reply.ok /\ reply.cols # 4)
                  => /\ ~pipeRead
                     /\ results = <<>> /\ fields = <<>> /\ written = <<>>
                     /\ pc = "done" => exit = "err"

\* C10 witness: a five-column reply over a non-empty stream was refused.
C10_Witness ==
    /\ SearchMode /\ reply.ok /\ reply.cols = 5
    /\ pipe # <<>>
    /\ pc = "done" /\ exit = "err"

====
